---------------------------- MODULE Spec2Model ----------------------------
(***************************************************************************)
(* Humanoid skateboard "pushing" task of mujoco_mpc                        *)
(* (mjpc/tasks/humanoid/skateboard/pushing.cc).                            *)
(*                                                                         *)
(* The model covers the Transition Controller (Pushing::TransitionLocked), *)
(* the Goal Controller (move_goal), the Reference Frame Synthesizer        *)
(* (move_mocap_poses), the Motion Library (MotionLength, MotionStartIndex, *)
(* ComputeInterpolationValues), the model reset (Pushing::ResetLocked) and *)
(* the Residual Assembler (Pushing::ResidualFn::Residual).                 *)
(*                                                                         *)
(* Numbers.  Every C++ double is a fixed-point integer counting            *)
(* thousandths (Scale): 0.5 is 500, 8.0 is 8000, an angle of 1 rad is      *)
(* 1000.  Products and quotients round towards minus infinity.  The libm   *)
(* functions (sin, cos, atan2, exp) are fixed-point approximations of the  *)
(* same functions.                                                         *)
(***************************************************************************)
EXTENDS Integers, Sequences, FiniteSets, TLC

\* ------------------------------------------------------------------------
\* Fixed-point arithmetic
\* ------------------------------------------------------------------------

\* one unit of a double (1.0)
Scale == 1000

\* M_PI
PI == 3142

Abs(a) == IF a < 0 THEN -a ELSE a

Min(a, b) == IF a < b THEN a ELSE b

Max(a, b) == IF a > b THEN a ELSE b

\* a * b of two doubles
Mul(a, b) == (a * b) \div Scale

\* a / b of two doubles (b # 0)
Div(a, b) == IF b > 0 THEN (a * Scale) \div b ELSE -((a * Scale) \div (-b))

\* std::clamp(v, lo, hi)
Clamp(v, lo, hi) == IF v < lo THEN lo ELSE IF hi < v THEN hi ELSE v

\* largest r with r * r <= n (sqrt of an integer), by bisection
RECURSIVE SqrtIter(_, _, _)
SqrtIter(n, lo, hi) ==
    IF lo >= hi THEN lo
    ELSE LET mid == (lo + hi + 1) \div 2
         IN  IF mid * mid <= n THEN SqrtIter(n, mid, hi)
             ELSE SqrtIter(n, lo, mid - 1)

ISqrt(n) == SqrtIter(n, 0, 46340)

\* mju_norm(v, 2): Euclidean norm of the first two components
Norm2(v) == ISqrt(v[1] * v[1] + v[2] * v[2])

\* mju_normalize(v, 2): scale to unit length; a vector shorter than mjMINVAL
\* becomes (1, 0)
Normalize2(v) ==
    LET n == Norm2(v)
    IN  IF n = 0 THEN <<Scale, 0>>
        ELSE <<Div(v[1], n), Div(v[2], n)>>

\* sin(x) for |x| <= PI/2: x - x^3/6 + x^5/120 - x^7/5040
SinPoly(x) ==
    LET x2 == Mul(x, x)
        x3 == Mul(x2, x)
        x5 == Mul(x3, x2)
        x7 == Mul(x5, x2)
    IN  x - (x3 \div 6) + (x5 \div 120) - (x7 \div 5040)

\* x reduced to (-PI, PI]
WrapAngle(x) ==
    LET r == (x + PI) % (2 * PI)
    IN  IF r = 0 THEN PI ELSE r - PI

\* sin(x)
Sin(x) ==
    LET w == WrapAngle(x)
    IN  IF w > PI \div 2 THEN SinPoly(PI - w)
        ELSE IF w < -(PI \div 2) THEN SinPoly(-PI - w)
        ELSE SinPoly(w)

\* cos(x)
Cos(x) == Sin(x + PI \div 2)

\* atan(z) for 0 <= z <= 1: z*PI/4 + 0.273*z*(1 - z)
AtanUnit(z) == Mul(z, PI \div 4) + Mul(273, Mul(z, Scale - z))

\* atan2(y, x); atan2(0, 0) is 0
Atan2(y, x) ==
    LET ay == Abs(y)
        ax == Abs(x)
        a  == IF ax = 0 /\ ay = 0 THEN 0
              ELSE IF ay <= ax THEN AtanUnit(Div(ay, ax))
              ELSE PI \div 2 - AtanUnit(Div(ax, ay))
        b  == IF x < 0 THEN PI - a ELSE a
    IN  IF y < 0 THEN -b ELSE b


\* exp(r) for 0 <= r < 1: 1 + r + r^2/2 + r^3/6 + r^4/24 + r^5/120
ExpPoly(r) ==
    LET r2 == Mul(r, r)
        r3 == Mul(r2, r)
        r4 == Mul(r3, r)
        r5 == Mul(r4, r)
    IN  Scale + r + (r2 \div 2) + (r3 \div 6) + (r4 \div 24) + (r5 \div 120)

\* e^n times v for an integer n; the product stays at 10^9 once it passes
\* 10^6 (a double reaches inf there)
RECURSIVE ExpScale(_, _)
ExpScale(n, v) ==
    IF n = 0 THEN v
    ELSE IF n > 0 THEN (IF v >= 1000000 THEN 1000000000 ELSE ExpScale(n - 1, Mul(v, 2718)))
    ELSE ExpScale(n + 1, Div(v, 2718))

\* std::exp(x)
Exp(x) == ExpScale(x \div Scale, ExpPoly(x % Scale))

\* ------------------------------------------------------------------------
\* The model (mjModel): bodies, mocap bodies, keyframes, parameters
\* ------------------------------------------------------------------------

\* names for humanoid bodies
body_names ==
    <<"pelvis", "head", "ltoe", "rtoe", "lheel", "rheel", "lknee", "rknee",
      "lhand", "rhand", "lelbow", "relbow", "lshoulder", "rshoulder", "lhip",
      "rhip">>

track_body_names ==
    <<"pelvis", "ltoe", "rtoe", "lheel", "rheel", "lhand", "rhand",
      "lshoulder", "rshoulder", "lhip", "rhip">>

upper_body_names ==
    <<"pelvis", "lhip", "rhip", "lknee", "head", "lshoulder", "rshoulder">>

upper_body_scale_y == <<-250, -500, -500, -1000, 1300, 1300, 1300>>

upper_body_scale_z == <<-50, 50, 50, -100, -150, -150, -150>>

\* "mocap[" + body_name + "]" for every humanoid body name
MocapNames ==
    [n \in {body_names[i] : i \in 1 .. Len(body_names)} |-> "mocap[" \o n \o "]"]

MocapName(body_name) == MocapNames[body_name]

\* model->nmocap: one mocap body per humanoid marker, and the goal
NMocap == Len(body_names) + 1

\* the markers: every mocap id but the goal's, 0 .. nmocap - 2
Markers == 0 .. (NMocap - 2)

\* every named body a correctly configured model holds
AllBodies ==
    {"skateboard", "goal"} \cup {MocapName(body_names[i]) : i \in 1 .. Len(body_names)}

\* the named parameters, in the order of their indices
ParameterNames ==
    <<"Amplitude_z", "Amplitude_y", "Frequency_z", "Frequency_y", "Phase_z",
      "Phase_y", "Offset_z", "Offset_y", "Tilt ratio", "Velocity">>

\* position of name in seq, 0 when absent
RECURSIVE IndexOf(_, _, _)
IndexOf(seq, name, i) ==
    IF i > Len(seq) THEN 0
    ELSE IF seq[i] = name THEN i
    ELSE IndexOf(seq, name, i + 1)

\* the body ids of a correctly configured model: 0 world, 1 skateboard,
\* 2 goal, 3 .. 18 the mocap bodies in the order of body_names
BodyIds ==
    [name \in AllBodies |->
        IF name = "skateboard" THEN 1
        ELSE IF name = "goal" THEN 2
        ELSE 2 + CHOOSE i \in 1 .. Len(body_names) : MocapName(body_names[i]) = name]

\* mj_name2id(model, mjOBJ_BODY / mjOBJ_XBODY, name): the body's id, -1 when the
\* model has no body of that name
mj_name2id(m, name) == IF name \in m.bodies THEN BodyIds[name] ELSE -1

\* model->body_mocapid[body_id] for a valid body id: the marker's mocap id, the
\* goal's mocap id (the last one), -1 for a body that is not a mocap body
body_mocapid(m, body_id) ==
    IF body_id = 2 THEN (IF m.goal_is_mocap THEN NMocap - 1 ELSE -1)
    ELSE IF body_id >= 3 THEN body_id - 3
    ELSE -1

\* mjpc::ParameterIndex(model, name): 0-based index of the named parameter,
\* -1 when the model declares no such parameter
ParameterIndex(m, name) ==
    IF name \in m.parameter_names THEN IndexOf(ParameterNames, name, 1) - 1 ELSE -1

\* model->key_mpos of keyframe 0: mocap id -> position
key_mpos_0 ==
    [i \in 0 .. (NMocap - 1) |->
        CASE i = 0  -> <<0, 0, 1000>>
          [] i = 1  -> <<0, 0, 1600>>
          [] i = 2  -> <<100, -100, 50>>
          [] i = 3  -> <<100, 100, 50>>
          [] i = 4  -> <<-100, -100, 50>>
          [] i = 5  -> <<-100, 100, 50>>
          [] i = 6  -> <<50, -100, 500>>
          [] i = 7  -> <<50, 100, 500>>
          [] i = 8  -> <<0, -300, 900>>
          [] i = 9  -> <<0, 300, 900>>
          [] i = 10 -> <<0, -250, 1100>>
          [] i = 11 -> <<0, 250, 1100>>
          [] i = 12 -> <<0, -200, 1400>>
          [] i = 13 -> <<0, 200, 1400>>
          [] i = 14 -> <<0, -100, 950>>
          [] i = 15 -> <<0, 100, 950>>
          [] OTHER  -> <<300, 0, 250>>]

\* model->key_mpos + 3 * model->nmocap * key: the frame of keyframe `key`; the
\* keyframes the model holds after the first are the pose raised step by step
key_mpos(key) ==
    IF key = 0 THEN key_mpos_0
    ELSE [i \in 0 .. (NMocap - 1) |->
            <<key_mpos_0[i][1], key_mpos_0[i][2], key_mpos_0[i][3] + 50 * key>>]

\* ------------------------------------------------------------------------
\* Motion Library
\* ------------------------------------------------------------------------

\* Hardcoded constant matching keyframes from CMU mocap dataset.
kFps == 30

\* a motion table whose one motion has two frames
kMotionLengths_TwoFrames == <<2>>

kMotionLengths == <<1>>

\* the valid motion ids
MotionIds == 0 .. (Len(kMotionLengths) - 1)

\* return length of motion trajectory
MotionLength(id) == kMotionLengths[id + 1]

\* a start index that counts the motion's own length too
MotionStartIndex_Inclusive(id) == MotionLength(id)

\* return starting keyframe index for motion: the loop of MotionStartIndex
RECURSIVE MotionStartLoop(_, _, _)
MotionStartLoop(id, i, start) ==
    IF i < id THEN MotionStartLoop(id, i + 1, start + MotionLength(i))
    ELSE start

MotionStartIndex(id) == MotionStartLoop(id, 0, 0)

\* interpolation values whose weight is taken from the index before the clamp
ComputeInterpolationValues_NoClamp(index, max_index) ==
    LET clamped == Clamp(index, 0, max_index * Scale)
        index_0 == clamped \div Scale
        index_1 == Min(index_0 + 1, max_index)
        weight_1 == index - index_0 * Scale
        weight_0 == Scale - weight_1
    IN  [index_0 |-> index_0, index_1 |-> index_1,
         weight_0 |-> weight_0, weight_1 |-> weight_1]

\* interpolation values whose second index is not held at max_index
ComputeInterpolationValues_NextFrame(index, max_index) ==
    LET clamped == Clamp(index, 0, max_index * Scale)
        index_0 == clamped \div Scale
        index_1 == index_0 + 1
        weight_1 == clamped - index_0 * Scale
        weight_0 == Scale - weight_1
    IN  [index_0 |-> index_0, index_1 |-> index_1,
         weight_0 |-> weight_0, weight_1 |-> weight_1]

\* compute interpolation between mocap frames; index, weight_0, weight_1 are
\* doubles, index_0, index_1, max_index are ints
ComputeInterpolationValues(index, max_index) ==
    LET clamped == Clamp(index, 0, max_index * Scale)
        index_0 == clamped \div Scale
        index_1 == Min(index_0 + 1, max_index)
        weight_1 == clamped - index_0 * Scale
        weight_0 == Scale - weight_1
    IN  [index_0 |-> index_0, index_1 |-> index_1,
         weight_0 |-> weight_0, weight_1 |-> weight_1]

\* ------------------------------------------------------------------------
\* State
\* ------------------------------------------------------------------------

VARIABLES
    model,            \* mjModel: [bodies, goal_is_mocap, parameter_names, nv, nu,
                      \*   sensor_dim, garbage]
    status,           \* "new" (no reset yet), "ready", "fatal" (mju_error), "ub"
    time,             \* d->time
    xpos,             \* d->xpos of the skateboard body
    xmat,             \* d->xmat of the skateboard body, entries 0 and 3
    mocap_pos,        \* d->mocap_pos (the pose buffer): mocap id -> position
    qpos,             \* d->qpos: [src |-> "key", index |-> k] or [src |-> "sim"]
    qvel,             \* d->qvel, likewise
    mode,             \* Task::mode, the requested motion id
    current_mode_,    \* residual_.current_mode_
    reference_time_,  \* residual_.reference_time_
    parameters,       \* Task::parameters, indexed by ParameterIndex + 1
    synth_in,         \* the inputs of the synthesizer call that wrote mocap_pos
    last,             \* what the latest operation did
    playback          \* the frame selection of a motion played back on its own

vars ==
    <<model, status, time, xpos, xmat, mocap_pos, qpos, qvel, mode,
      current_mode_, reference_time_, parameters, synth_in, last, playback>>

\* the goal's position in the pose buffer
GoalPos(mp) == mp[NMocap - 1]

\* squared planar distance between two positions
PlanarDist2(a, b) == (a[1] - b[1]) * (a[1] - b[1]) + (a[2] - b[2]) * (a[2] - b[2])

\* ------------------------------------------------------------------------
\* Goal Controller
\* ------------------------------------------------------------------------

\* double goal_switch_threshold_m = 0.5
goal_switch_threshold_m == 500

\* double goal_move_distance_forward = 8.0
goal_move_distance_forward == 8000

\* double goal_move_distance_side = 2.0
goal_move_distance_side == 2000

\* the comparison of move_goal with the threshold itself let in
GoalReached_AtThreshold(goal_position, skateboard_position) ==
    PlanarDist2(goal_position, skateboard_position)
        <= goal_switch_threshold_m * goal_switch_threshold_m

\* skateboard_goal_distance < goal_switch_threshold_m, the distance being
\* mju_norm of the first two components of goal - skateboard
GoalReached(goal_position, skateboard_position) ==
    PlanarDist2(goal_position, skateboard_position)
        < goal_switch_threshold_m * goal_switch_threshold_m

\* the perpendicular offset on the same side for both draws
GoalOffsetPerpendicular_OneSide(goal_offset_xy, left_or_right) ==
    <<Mul(-goal_offset_xy[2], goal_move_distance_side),
      Mul(goal_offset_xy[1], goal_move_distance_side)>>

\* side of the new goal: goal_offset_perpendicular
GoalOffsetPerpendicular(goal_offset_xy, left_or_right) ==
    IF left_or_right
    THEN <<Mul(-goal_offset_xy[2], goal_move_distance_side),
           Mul(goal_offset_xy[1], goal_move_distance_side)>>
    ELSE <<Mul(goal_offset_xy[2], goal_move_distance_side),
           Mul(-goal_offset_xy[1], goal_move_distance_side)>>

\* a new goal put where the skateboard is
NewGoalPosition_NoOffset(goal_position, skateboard_position, skateboard_xmat, left_or_right) ==
    <<skateboard_position[1], skateboard_position[2], goal_position[3]>>

\* new_goal_position of move_goal
NewGoalPosition(goal_position, skateboard_position, skateboard_xmat, left_or_right) ==
    LET goal_offset_xy == Normalize2(skateboard_xmat)
        goal_offset_forward ==
            <<Mul(goal_offset_xy[1], goal_move_distance_forward),
              Mul(goal_offset_xy[2], goal_move_distance_forward)>>
        goal_offset_perpendicular ==
            GoalOffsetPerpendicular(goal_offset_xy, left_or_right)
        goal_offset ==
            <<goal_offset_forward[1] + goal_offset_perpendicular[1],
              goal_offset_forward[2] + goal_offset_perpendicular[2], 0>>
    IN  <<skateboard_position[1] + goal_offset[1],
          skateboard_position[2] + goal_offset[2],
          goal_position[3]>>

\* move_goal(model, d, parameters, mode) on the pose buffer mp; left_or_right is
\* the draw of the bernoulli distribution.  The skateboard lookup is not
\* checked here: Pushing::ResetLocked has checked it before any step runs.
move_goal(m, mp, skateboard_position, skateboard_xmat, left_or_right) ==
    LET goal_body_id == mj_name2id(m, "goal")
        goal_mocapid == body_mocapid(m, goal_body_id)
        skateboard_body_id_ == mj_name2id(m, "skateboard")
    IN  IF goal_body_id < 0 \/ goal_mocapid < 0
        THEN [st |-> "fatal", mocap_pos |-> mp, relocated |-> FALSE,
              bad_id |-> FALSE]
        ELSE IF GoalReached(mp[goal_mocapid], skateboard_position)
        THEN [st |-> "ok",
              mocap_pos |->
                  [mp EXCEPT ![goal_mocapid] =
                      NewGoalPosition(mp[goal_mocapid], skateboard_position,
                                      skateboard_xmat, left_or_right)],
              relocated |-> TRUE,
              bad_id |-> skateboard_body_id_ < 0]
        ELSE [st |-> "ok", mocap_pos |-> mp, relocated |-> FALSE,
              bad_id |-> skateboard_body_id_ < 0]

\* ------------------------------------------------------------------------
\* Reference Frame Synthesizer
\* ------------------------------------------------------------------------

\* parameters[mjpc::ParameterIndex(model, name)]
Parameter(m, params, name) == params[ParameterIndex(m, name) + 1]

\* the parameters move_mocap_poses reads before it looks up the markers
OscillatorParameters ==
    {"Amplitude_z", "Amplitude_y", "Frequency_z", "Frequency_y", "Phase_z",
     "Phase_y", "Offset_z", "Offset_y"}

\* model->body_mocapid[mj_name2id(model, mjOBJ_BODY, "mocap[<name>]")], with no
\* check of the id: for a missing body the id is -1 and the mocap id is
\* `garbage`, whatever the memory before body_mocapid holds
UncheckedMocapId(m, body_name, garbage) ==
    LET mocap_body_id == mj_name2id(m, MocapName(body_name))
    IN  IF mocap_body_id < 0 THEN garbage ELSE body_mocapid(m, mocap_body_id)

\* sum of component c of frame over the markers 0 .. i
RECURSIVE SumComponent(_, _, _)
SumComponent(frame, c, i) ==
    IF i < 0 THEN 0 ELSE frame[i][c] + SumComponent(frame, c, i - 1)

\* every marker moved to the skateboard and re-centred on average_mpos
Recenter(frame, skateboard_center, average_x, average_y) ==
    [i \in Markers |->
        <<frame[i][1] + skateboard_center[1] - average_x - 100,
          frame[i][2] + skateboard_center[2] - average_y,
          frame[i][3] + skateboard_center[3] - 100>>]

\* the frame moved to the skateboard and re-centred on the mean marker
AnchorFrame(frame, skateboard_center) ==
    Recenter(frame, skateboard_center,
             SumComponent(frame, 1, NMocap - 2) \div (NMocap - 1),
             SumComponent(frame, 2, NMocap - 2) \div (NMocap - 1))

\* sin(2 * M_PI * frequency * time + phase)
Oscillator(frequency, t, phase) == Sin(Mul(Mul(2 * PI, frequency), t) + phase)

\* the left toe and the left heel follow the foot oscillators: osc_z and osc_y
\* are the sines of the z and y oscillators at the current time
FootOscillator(pos, m, params, osc_z, osc_y, garbage) ==
    LET body_mocapid_ltoe == UncheckedMocapId(m, "ltoe", garbage)
        body_mocapid_lheel == UncheckedMocapId(m, "lheel", garbage)
        left_toe_pos == key_mpos(0)[body_mocapid_ltoe]
        left_heel_pos == key_mpos(0)[body_mocapid_lheel]
        left_foot_z_ref ==
            Mul(Parameter(m, params, "Amplitude_z"), osc_z)
            - Parameter(m, params, "Offset_z")
        left_foot_y_toe_ref ==
            Mul(Parameter(m, params, "Amplitude_y"), osc_y)
            + left_toe_pos[2] + Parameter(m, params, "Offset_y")
        toe_y == pos[body_mocapid_ltoe][2] + left_foot_y_toe_ref
        p1 == [pos EXCEPT ![body_mocapid_ltoe][2] = toe_y]
        p2 == [p1 EXCEPT ![body_mocapid_lheel][2] = toe_y - 200]
        p3 == [p2 EXCEPT ![body_mocapid_ltoe][3] = left_foot_z_ref + left_toe_pos[3]]
    IN  [p3 EXCEPT ![body_mocapid_lheel][3] = left_foot_z_ref + left_heel_pos[3]]

\* the loop over upper_body_names, from entry i on
RECURSIVE UpperBodySway(_, _, _, _, _, _, _)
UpperBodySway(pos, m, amplitude_y, offset_y, osc_y, garbage, i) ==
    IF i > Len(upper_body_names) THEN pos
    ELSE LET body_mocapid_i == UncheckedMocapId(m, upper_body_names[i], garbage)
             body_pos == key_mpos(0)[body_mocapid_i]
             body_y_ref ==
                 Mul(Mul(Mul(-upper_body_scale_y[i], amplitude_y), 500), osc_y)
                 + body_pos[2] + offset_y + 200
             body_z_ref == Mul(-upper_body_scale_z[i], osc_y)
         IN  UpperBodySway(
                 [pos EXCEPT ![body_mocapid_i][2] = @ + body_y_ref,
                             ![body_mocapid_i][3] = @ + body_z_ref],
                 m, amplitude_y, offset_y, osc_y, garbage, i + 1)

\* skateboard_heading = atan2(skateboard_xmat[3], skateboard_xmat[0]) - M_PI / 2
SkateboardHeading(skateboard_xmat) ==
    Atan2(skateboard_xmat[2], skateboard_xmat[1]) - PI \div 2

\* tilt_angle: the lean towards the goal
TiltAngle(skateboard_center, skateboard_xmat, goal_pos, mocap_tilt) ==
    LET goal_heading ==
            Atan2(goal_pos[2] - skateboard_center[2],
                  goal_pos[1] - skateboard_center[1]) - PI \div 2
        heading_error ==
            Sin(goal_heading - SkateboardHeading(skateboard_xmat)) \div 3
    IN  Mul(Mul(Min(500, Max(-500, heading_error)), PI) \div 2, mocap_tilt)

\* the lean about the Y axis, then the rotation about the Z axis by the
\* skateboard's heading, of every marker relative to the skateboard; sin_tilt,
\* cos_tilt, sin_heading, cos_heading are the sines and cosines of tilt_angle
\* and skateboard_heading
TiltAndRotate(pos, skateboard_center, sin_tilt, cos_tilt, sin_heading, cos_heading) ==
    [i \in Markers |->
        LET rel_x0 == pos[i][1] - skateboard_center[1]
            rel_y == pos[i][2] - skateboard_center[2]
            rotated_z == Mul(rel_x0, sin_tilt) + Mul(pos[i][3], cos_tilt)
            rel_x == Mul(rel_x0, cos_tilt) - Mul(pos[i][3], sin_tilt)
            rotated_x == Mul(cos_heading, rel_x) - Mul(sin_heading, rel_y)
            rotated_y == Mul(sin_heading, rel_x) + Mul(cos_heading, rel_y)
        IN  <<skateboard_center[1] + rotated_x,
              skateboard_center[2] + rotated_y,
              rotated_z>>]

\* a synthesizer that starts from the markers of the pose buffer
KeyFrame_FromPoseBuffer(mp, md) == [i \in Markers |-> mp[i]]

\* a synthesizer that starts from the keyframe after that of the mode
KeyFrame_NextKey(mp, md) == [i \in Markers |-> key_mpos(md + 1)[i]]

\* modified_mocap_pos at the start of move_mocap_poses: the markers of the
\* keyframe model->key_mpos + 3 * model->nmocap * mode (nothing of the pose
\* buffer mp)
KeyFrame(mp, md) == [i \in Markers |-> key_mpos(md)[i]]

\* the markers move_mocap_poses looks up without a check
SynthMarkerNames ==
    {"ltoe", "lheel"} \cup {upper_body_names[i] : i \in 1 .. Len(upper_body_names)}

\* move_mocap_poses from line 166 on, modified_mocap_pos holding `frame`: the
\* marker positions computed from it, the skateboard pose, the goal in the
\* pose buffer mp, the parameters and the time
SynthesizeFrame(frame, m, mp, skateboard_center, skateboard_xmat, t, params, garbage) ==
    LET anchored == AnchorFrame(frame, skateboard_center)
        osc_z == Oscillator(Parameter(m, params, "Frequency_z"), t,
                            Parameter(m, params, "Phase_z"))
        osc_y == Oscillator(Parameter(m, params, "Frequency_y"), t,
                            Parameter(m, params, "Phase_y"))
        stepped == FootOscillator(anchored, m, params, osc_z, osc_y, garbage)
        swayed == UpperBodySway(stepped, m, Parameter(m, params, "Amplitude_y"),
                                Parameter(m, params, "Offset_y"), osc_y, garbage, 1)
        goal_mocap_id_ == body_mocapid(m, mj_name2id(m, "goal"))
        tilt_angle ==
            TiltAngle(skateboard_center, skateboard_xmat, mp[goal_mocap_id_],
                      Parameter(m, params, "Tilt ratio"))
        skateboard_heading == SkateboardHeading(skateboard_xmat)
    IN  TiltAndRotate(swayed, skateboard_center, Sin(tilt_angle), Cos(tilt_angle),
                      Sin(skateboard_heading), Cos(skateboard_heading))

\* the marker positions move_mocap_poses computes: the synthesis from the
\* keyframe of `md`
SynthesizedFrame(m, mp, skateboard_center, skateboard_xmat, t, params, md, garbage) ==
    SynthesizeFrame(KeyFrame(mp, md), m, mp, skateboard_center, skateboard_xmat,
                    t, params, garbage)

\* move_mocap_poses(result, model, data, parameters, mode): [st, out, bad_id].
\* st is "fatal" when a checked lookup fails (mju_error), "ub" when the mocap
\* id read for a missing marker body lies outside the marker buffer (the
\* writes go through it), "ok" otherwise; bad_id tells that the id of a failed
\* lookup was used as an index.
move_mocap_poses(m, mp, skateboard_center, skateboard_xmat, t, params, md, garbage) ==
    LET missing == {n \in SynthMarkerNames : mj_name2id(m, MocapName(n)) < 0}
        goal_id == mj_name2id(m, "goal")
    IN  IF \E n \in OscillatorParameters : ParameterIndex(m, n) < 0
        THEN [st |-> "fatal", out |-> << >>, bad_id |-> FALSE]
        ELSE IF missing # {} /\ garbage \notin Markers
        THEN [st |-> "ub", out |-> << >>, bad_id |-> TRUE]
        ELSE IF goal_id < 0 \/ body_mocapid(m, goal_id) < 0
                \/ ParameterIndex(m, "Tilt ratio") < 0
        THEN [st |-> "fatal", out |-> << >>, bad_id |-> missing # {}]
        ELSE [st |-> "ok",
              out |-> SynthesizedFrame(m, mp, skateboard_center, skateboard_xmat,
                                       t, params, md, garbage),
              bad_id |-> missing # {}]

\* ------------------------------------------------------------------------
\* Bounds and inputs
\* ------------------------------------------------------------------------

\* the simulation runs for at most MaxTick steps after a reset
MaxTick == 2

\* the skateboard follows the goal while the goal is within MaxCoord units of
\* the origin on both axes
MaxCoord == 12

\* humanoid joints beyond the 19 degrees of freedom of the boards: nv <= 19 + MaxJoints
MaxJoints == 2

\* model->opt.timestep: the time one simulation step adds to d->time
Timestep == Scale \div 4

\* (xmat[0], xmat[3]) of the skateboard: facing +x, facing (0.6, 0.8) with
\* the nose pitched up, standing on its tail
Headings == {<<1000, 0>>, <<300, 400>>, <<0, 0>>}

\* what the memory before model->body_mocapid can hold, read as
\* model->body_mocapid[-1]: -1, a marker's mocap id, the goal's mocap id
GarbageIds == {-1, 3, NMocap - 1}

\* the residual parameters of the task
ParameterChoices ==
    {<<100, 200, 1000, 1000, 0, 0, 0, 0, 1000, 1000>>}

AllParameters == {ParameterNames[i] : i \in 1 .. Len(ParameterNames)}

\* the sensor dimensionality a model declares for the residual of nv, nu
DeclaredDim(nv, nu) == (nv - 19) + nu + 69 + 6 + 2 + 3 + 1 + 2

GoodModel(nv, nu) ==
    [bodies |-> AllBodies, goal_is_mocap |-> TRUE,
     parameter_names |-> AllParameters, nv |-> nv, nu |-> nu,
     sensor_dim |-> DeclaredDim(nv, nu), garbage |-> -1]

\* the models: correctly configured ones, ones that miss a named entity, and
\* one whose user sensors declare one scalar more than the residual writes
ModelChoices ==
    {GoodModel(19 + MaxJoints, 2), GoodModel(19, 1)}
    \cup {[GoodModel(19, 1) EXCEPT !.bodies = AllBodies \ {b}] :
            b \in {"skateboard", "goal"}}
    \cup {[GoodModel(19, 1) EXCEPT !.bodies = AllBodies \ {b}, !.garbage = g] :
            b \in {"mocap[ltoe]", "mocap[head]"}, g \in GarbageIds}
    \cup {[GoodModel(19, 1) EXCEPT !.goal_is_mocap = FALSE]}
    \cup {[GoodModel(19, 1) EXCEPT !.sensor_dim = DeclaredDim(19, 1) + 1]}
    \cup {[GoodModel(19, 1) EXCEPT !.parameter_names = AllParameters \ {p}] :
            p \in {"Phase_y", "Tilt ratio"}}

\* where the model puts the bodies at time 0: the skateboard at the origin
\* facing +x, the markers and the goal at the keyframe's positions
InitialXpos == <<0, 0, 100>>

InitialXmat == <<1000, 0>>

InitialMocapPos == key_mpos(0)

\* where the simulation can put the skateboard: back at the origin, 0.3 short
\* of the goal, or short of it by exactly the switch threshold
SkatePositions(goal_position) ==
    {InitialXpos}
    \cup (IF Abs(goal_position[1]) <= MaxCoord * Scale
             /\ Abs(goal_position[2]) <= MaxCoord * Scale
          THEN {<<goal_position[1] - 300, goal_position[2], 100>>,
                <<goal_position[1] - goal_switch_threshold_m, goal_position[2], 100>>}
          ELSE {})

NoLast ==
    [op |-> "init", did_reset |-> FALSE, relocated |-> FALSE,
     stack_open |-> FALSE,
     left_or_right |-> FALSE, bad_id |-> FALSE,
     interp |-> ComputeInterpolationValues(0, 0),
     residual |-> << >>, dim_checks |-> 0, contacts |-> << >>,
     read_done |-> FALSE, reads |-> [lo |-> 0, hi |-> 0],
     force_error |-> 0, mocap_translated |-> << >>]

NoSynth == [called |-> FALSE]

NoPlayback == [on |-> FALSE]

Init ==
    /\ model \in ModelChoices
    /\ status = "new"
    /\ time = 0
    /\ xpos = InitialXpos
    /\ xmat = InitialXmat
    /\ mocap_pos = InitialMocapPos
    /\ qpos = [src |-> "default"]
    /\ qvel = [src |-> "default"]
    /\ mode = 0
    /\ current_mode_ = 0
    /\ reference_time_ = 0
    /\ parameters \in ParameterChoices
    /\ synth_in = NoSynth
    /\ last = NoLast
    /\ playback = NoPlayback

\* ------------------------------------------------------------------------
\* Pushing::ResetLocked
\* ------------------------------------------------------------------------

\* the four lookups of ResetLocked all succeed
ResetLookupsOk(m) ==
    /\ mj_name2id(m, "skateboard") >= 0
    /\ mj_name2id(m, "goal") >= 0
    /\ body_mocapid(m, mj_name2id(m, "goal")) >= 0

ResetLocked ==
    /\ status \in {"new", "ready"}
    /\ status' = IF ResetLookupsOk(model) THEN "ready" ELSE "fatal"
    /\ last' = [NoLast EXCEPT !.op = "reset"]
    /\ UNCHANGED <<model, time, xpos, xmat, mocap_pos, qpos, qvel, mode,
                   current_mode_, reference_time_, parameters, synth_in,
                   playback>>

\* ------------------------------------------------------------------------
\* The simulation (the host's mj_step and mj_resetData)
\* ------------------------------------------------------------------------

PhysicsStep ==
    /\ status = "ready"
    /\ time < MaxTick * Timestep
    /\ time' = time + Timestep
    /\ \E p \in SkatePositions(GoalPos(mocap_pos)), h \in Headings :
          xpos' = p /\ xmat' = h
    /\ qpos' = [src |-> "sim"]
    /\ qvel' = [src |-> "sim"]
    /\ last' = [NoLast EXCEPT !.op = "physics"]
    /\ UNCHANGED <<model, status, mocap_pos, mode, current_mode_,
                   reference_time_, parameters, synth_in, playback>>

SimReset ==
    /\ status = "ready"
    /\ time > 0
    /\ time' = 0
    /\ xpos' = InitialXpos
    /\ xmat' = InitialXmat
    /\ mocap_pos' = InitialMocapPos
    /\ qpos' = [src |-> "default"]
    /\ qvel' = [src |-> "default"]
    /\ synth_in' = NoSynth
    /\ last' = [NoLast EXCEPT !.op = "simreset"]
    /\ UNCHANGED <<model, status, mode, current_mode_, reference_time_, parameters,
                   playback>>

\* ------------------------------------------------------------------------
\* Transition Controller
\* ------------------------------------------------------------------------

\* a motion switch that does not look at the time
MotionSwitch_ModeOnly(stored_mode, requested_mode, t) == stored_mode # requested_mode

\* check for motion switch
MotionSwitch(stored_mode, requested_mode, t) == stored_mode # requested_mode \/ t = 0

\* (d->time - reference_time_) * kFps + start
CurrentIndex(t, reference_time, start) == (t - reference_time) * kFps + start * Scale

\* mocap_pos_0 + mocap_pos_1 written over the markers of the pose buffer
InterpolatedMarkers(mp, iv) ==
    [i \in 0 .. (NMocap - 1) |->
        IF i \in Markers
        THEN <<Mul(key_mpos(iv.index_0)[i][1], iv.weight_0)
                 + Mul(key_mpos(iv.index_1)[i][1], iv.weight_1),
               Mul(key_mpos(iv.index_0)[i][2], iv.weight_0)
                 + Mul(key_mpos(iv.index_1)[i][2], iv.weight_1),
               Mul(key_mpos(iv.index_0)[i][3], iv.weight_0)
                 + Mul(key_mpos(iv.index_1)[i][3], iv.weight_1)>>
        ELSE mp[i]]

\* mju_copy(d->mocap_pos, mocap_pos_result, 3 * (model->nmocap - 1))
WriteMarkers(mp, result) ==
    [i \in 0 .. (NMocap - 1) |-> IF i \in Markers THEN result[i] ELSE mp[i]]

\* TransitionLocked from mj_markStack to the copy of mocap_pos_result: the
\* interpolated frame is written over the markers, then the synthesized one
SynthesizeInto(interpolated, synth) ==
    [st |-> synth.st, bad_id |-> synth.bad_id,
     mocap_pos |-> IF synth.st = "ok" THEN WriteMarkers(interpolated, synth.out)
                   ELSE interpolated]

\* the interpolation of the step and the pose buffer after move_mocap_poses
InterpolateAndSynthesize(iv, interpolated, garbage) ==
    [iv |-> iv,
     frame |-> SynthesizeInto(interpolated,
                   move_mocap_poses(model, interpolated, xpos, xmat, time,
                                    parameters, mode, garbage))]

\* the step from the interpolation on, the motion starting at keyframe `start`
\* and the reference time being `reference`
InterpolateFrom(start, reference, iv, garbage) ==
    InterpolateAndSynthesize(iv, InterpolatedMarkers(mocap_pos, iv), garbage)

\* the step up to the call of move_goal: the motion switch, the interpolation
\* and the synthesized markers
TransitionFrame(start, length, switch, reference, garbage) ==
    [start |-> start, switch |-> switch, reference |-> reference,
     rest |-> InterpolateFrom(start, reference,
                  ComputeInterpolationValues(
                      CurrentIndex(time, reference, start), start + length - 1),
                  garbage)]

\* whether the step leaves the mark of mj_markStack (line 763) without its
\* mj_freeStack (line 782): not when it runs to its end; always when
\* mju_error ends it inside move_mocap_poses or move_goal, which lie between
\* the two; either way when the behaviour is undefined
StackLeftOpen(st) ==
    IF st = "ok" THEN {FALSE}
    ELSE IF st = "fatal" THEN {TRUE}
    ELSE BOOLEAN

TransitionLocked ==
    /\ status = "ready"
    /\ \E switch \in {MotionSwitch(current_mode_, mode, time)} :
       \E t \in {TransitionFrame(MotionStartIndex(mode), MotionLength(mode), switch,
                                 IF switch THEN time ELSE reference_time_,
                                 model.garbage)} :
       \E f \in {t.rest.frame} :
       \E left_or_right \in BOOLEAN :
       \E goal \in {IF f.st = "ok"
                    THEN move_goal(model, f.mocap_pos, xpos, xmat, left_or_right)
                    ELSE [st |-> f.st, mocap_pos |-> f.mocap_pos,
                          relocated |-> FALSE, bad_id |-> FALSE]} :
       \E stack_open \in StackLeftOpen(goal.st) :
            /\ current_mode_' = IF t.switch THEN mode ELSE current_mode_
            /\ reference_time_' = t.reference
            /\ qpos' = IF t.switch THEN [src |-> "key", index |-> t.start] ELSE qpos
            /\ qvel' = IF t.switch THEN [src |-> "key", index |-> t.start] ELSE qvel
            /\ mocap_pos' = goal.mocap_pos
            /\ status' = IF goal.st = "ok" THEN "ready" ELSE goal.st
            /\ synth_in' =
                  IF f.st = "ok"
                  THEN [called |-> TRUE, time |-> time, xpos |-> xpos,
                        xmat |-> xmat, parameters |-> parameters,
                        mode |-> mode, goal |-> GoalPos(mocap_pos)]
                  ELSE synth_in
            /\ last' = [NoLast EXCEPT !.op = "transition",
                                      !.did_reset = t.switch,
                                      !.relocated = goal.relocated,
                                      !.stack_open = stack_open,
                                      !.left_or_right = goal.relocated /\ left_or_right,
                                      !.bad_id = f.bad_id \/ goal.bad_id,
                                      !.interp = t.rest.iv]
    /\ UNCHANGED <<model, time, xpos, xmat, mode, parameters, playback>>

\* ------------------------------------------------------------------------
\* Residual Assembler
\* ------------------------------------------------------------------------

\* n scalars of the block `tag`
RECURSIVE Block(_, _)
Block(tag, n) == IF n <= 0 THEN << >> ELSE <<tag>> \o Block(tag, n - 1)

\* three scalars for each of seq[i ..]
RECURSIVE ThreePerBody(_, _, _)
ThreePerBody(tag, seq, i) ==
    IF i > Len(seq) THEN << >>
    ELSE <<tag, tag, tag>> \o ThreePerBody(tag, seq, i + 1)

\* the markers ComputeTrackingResidual looks up (under assert only)
TrackedMarkerMissing(m) ==
    \E i \in 1 .. Len(body_names) : mj_name2id(m, MocapName(body_names[i])) < 0

\* a tracking block without the average position error
TrackingBlocks_NoAverage ==
    ThreePerBody("tracking_position", track_body_names, 1)
    \o ThreePerBody("tracking_velocity", track_body_names, 1)

\* residual_to_return of ComputeTrackingResidual: the average position error,
\* the position error of every track body, the velocity error of every track
\* body
TrackingBlocks ==
    Block("tracking_average", 3)
    \o ThreePerBody("tracking_position", track_body_names, 1)
    \o ThreePerBody("tracking_velocity", track_body_names, 1)

\* the interpolation values of ComputeTrackingResidual (lines 349-363)
TrackingInterpolation(t, reference_time, stored_mode) ==
    ComputeInterpolationValues(
        CurrentIndex(t, reference_time, MotionStartIndex(stored_mode)),
        MotionStartIndex(stored_mode) + MotionLength(stored_mode) - 1)

\* the offsets into mocap_translated at which get_body_mpos reads three
\* entries: 3 * (nmocap - 1) * key_index + 3 * body_mocapid for both key
\* indices and every body of body_names (track_body_names are among them)
TrackingReadOffsets(m, iv, garbage) ==
    {3 * (NMocap - 1) * key_index + 3 * UncheckedMocapId(m, body_names[i], garbage) :
        key_index \in {iv.index_0, iv.index_1}, i \in 1 .. Len(body_names)}

\* the lowest and the highest of these offsets
TrackingReads(offsets) ==
    [lo |-> CHOOSE x \in offsets : \A y \in offsets : x <= y,
     hi |-> CHOOSE x \in offsets : \A y \in offsets : x >= y]

\* ComputeTrackingResidual after its call of move_mocap_poses, whose outcome
\* is synth.  asserts tells whether the build keeps assert(): with it a
\* missing marker body aborts, without it the mocap id read for the missing
\* body is used.
TrackingResidual(m, synth, garbage, asserts) ==
    IF synth.st # "ok"
    THEN [st |-> synth.st, out |-> << >>, bad_id |-> synth.bad_id,
          translated |-> << >>]
    ELSE IF TrackedMarkerMissing(m) /\ asserts
    THEN [st |-> "fatal", out |-> << >>, bad_id |-> synth.bad_id,
          translated |-> synth.out]
    ELSE IF TrackedMarkerMissing(m) /\ garbage \notin Markers
    THEN [st |-> "ub", out |-> << >>, bad_id |-> TRUE,
          translated |-> synth.out]
    ELSE [st |-> "ok", out |-> TrackingBlocks,
          bad_id |-> synth.bad_id \/ TrackedMarkerMissing(m),
          translated |-> synth.out]

\* Pushing::ResidualFn::ComputeTrackingResidual: [st, out, bad_id, translated]
ComputeTrackingResidual(m, mp, skateboard_center, skateboard_xmat, t, params, stored_mode, garbage, asserts) ==
    TrackingResidual(m,
        move_mocap_poses(m, mp, skateboard_center, skateboard_xmat, t, params,
                         stored_mode, garbage),
        garbage, asserts)

\* geom ids: mj_name2id(model, mjOBJ_GEOM, ...)
floor_id == 0

left_heel_id_ == 1

left_toe_id_ == 2

\* model->nbody: the world and the named bodies
NBody(m) == 1 + Cardinality(m.bodies)

\* mj_id2name(model, mjOBJ_XBODY, id) returns NULL: no body has this id
NoBodyName(m, id) == id < 0 \/ id >= NBody(m)

\* the contact is between geom and the floor
TouchesFloor(contact, geom) ==
    \/ contact.geom1 = geom /\ contact.geom2 = floor_id
    \/ contact.geom2 = geom /\ contact.geom1 = floor_id

\* the contact search of ComputeFootContactForceResidual from contact i on:
\* [toe, heel, found, null_name]; null_name tells that a std::string was built
\* from the NULL that mj_id2name returned
RECURSIVE FindFootContacts(_, _, _, _)
FindFootContacts(m, contacts, i, acc) ==
    IF i > Len(contacts) THEN acc
    ELSE LET c == contacts[i]
             null_name == NoBodyName(m, c.geom1) \/ NoBodyName(m, c.geom2)
             hit == IF TouchesFloor(c, left_heel_id_)
                    THEN [acc EXCEPT !.toe = i, !.found = @ + 1]
                    ELSE IF TouchesFloor(c, left_toe_id_)
                    THEN [acc EXCEPT !.heel = i, !.found = @ + 1]
                    ELSE acc
         IN  IF null_name THEN [acc EXCEPT !.null_name = TRUE]
             ELSE IF hit.found = 2 THEN hit
             ELSE FindFootContacts(m, contacts, i + 1, hit)

\* mj_contactForce(model, data, id, result): zero for an id that is no contact
mj_contactForce(contacts, id) ==
    IF id >= 1 /\ id <= Len(contacts) THEN contacts[id].force ELSE <<0, 0, 0>>

\* a gate that is always open
ShouldAddForce_Always(ltoe_height) == Scale

\* should_add_force: the left toe marker of the pose buffer is near the ground
ShouldAddForce(ltoe_height) == IF ltoe_height <= 50 THEN Scale ELSE 0

\* left_foot_contact_force_error
ForceError(force_abs_sum, should_add_force) ==
    Mul(Div(Scale, Scale + Exp((force_abs_sum - 500 * Scale) \div 80)),
        should_add_force)

\* Pushing::ResidualFn::ComputeFootContactForceResidual: [st, out, bad_id]
ComputeFootContactForceResidual(m, mp, contacts, garbage) ==
    LET found == FindFootContacts(m, contacts, 1,
                     [toe |-> 0, heel |-> 0, found |-> 0, null_name |-> FALSE])
        toe_force == mj_contactForce(contacts, found.toe)
        heel_force == mj_contactForce(contacts, found.heel)
        force_abs_sum ==
            Abs(toe_force[1] + heel_force[1]) + Abs(toe_force[2] + heel_force[2])
            + Abs(toe_force[3] + heel_force[3])
        body_mocapid_ltoe == UncheckedMocapId(m, "ltoe", garbage)
        missing == mj_name2id(m, MocapName("ltoe")) < 0
    IN  IF found.null_name
        THEN [st |-> "ub", out |-> 0, bad_id |-> FALSE]
        ELSE IF body_mocapid_ltoe \notin 0 .. (NMocap - 1)
        THEN [st |-> "ub", out |-> 0, bad_id |-> TRUE]
        ELSE [st |-> "ok",
              out |-> ForceError(force_abs_sum,
                                 ShouldAddForce(mp[body_mocapid_ltoe][3])),
              bad_id |-> missing]

\* the blocks Residual writes after the tracking block and before the
\* contact force
MiddleBlocks ==
    Block("foot_positions", 6) \o Block("board_heading", 2)
    \o Block("board_velocity", 3)

\* joint velocities and control effort, the first two blocks
HeadBlocks(m) ==
    Block("joint_velocity", m.nv - 6 - 6 - 7) \o Block("control", m.nu)

\* CheckSensorDim(model, counter): the count must be the declared dimension
CheckSensorDim(m, counter) == counter = m.sensor_dim

\* a Residual that returns without the call of CheckSensorDim
FullResidual_Unchecked(m, tracking, force, written) ==
    [st |-> "ok", dim_checks |-> 0,
     residual |-> written, force_error |-> force.out,
     bad_id |-> tracking.bad_id \/ force.bad_id,
     translated |-> tracking.translated]

\* Residual when every block is computed: the blocks in the order written,
\* then the one call of CheckSensorDim
FullResidual(m, tracking, force, written) ==
    [st |-> IF CheckSensorDim(m, Len(written)) THEN "ok" ELSE "fatal",
     dim_checks |-> 1,
     residual |-> written, force_error |-> force.out,
     bad_id |-> tracking.bad_id \/ force.bad_id,
     translated |-> tracking.translated]

\* Pushing::ResidualFn::Residual: [st, residual, force_error, bad_id,
\* translated]; tracking and force are the outcomes of ComputeTrackingResidual
\* and ComputeFootContactForceResidual
Residual(m, tracking, force) ==
    IF tracking.st # "ok"
    THEN [st |-> tracking.st, dim_checks |-> 0,
          residual |-> HeadBlocks(m), force_error |-> 0,
          bad_id |-> tracking.bad_id, translated |-> tracking.translated]
    ELSE IF ParameterIndex(m, "Velocity") < 0
    THEN [st |-> "fatal", dim_checks |-> 0,
          residual |-> HeadBlocks(m) \o tracking.out
                       \o Block("foot_positions", 6) \o Block("board_heading", 2),
          force_error |-> 0, bad_id |-> tracking.bad_id,
          translated |-> tracking.translated]
    ELSE IF force.st # "ok"
    THEN [st |-> force.st, dim_checks |-> 0,
          residual |-> HeadBlocks(m) \o tracking.out \o MiddleBlocks,
          force_error |-> 0, bad_id |-> tracking.bad_id \/ force.bad_id,
          translated |-> tracking.translated]
    ELSE FullResidual(m, tracking, force,
             HeadBlocks(m) \o tracking.out \o MiddleBlocks
             \o Block("foot_contact_force", 1) \o Block("com_velocity", 2))

\* the contact lists of a residual evaluation: none, the left heel on the
\* floor, heel and toe on the floor (in both geom orders), a strong push, a
\* contact of two other geoms, a contact of a geom whose id is no body's
ContactChoices ==
    {<< >>,
     <<[geom1 |-> left_heel_id_, geom2 |-> floor_id, force |-> <<0, -20000, 100000>>]>>,
     <<[geom1 |-> floor_id, geom2 |-> left_toe_id_, force |-> <<-100000, 50000, 300000>>],
       [geom1 |-> left_heel_id_, geom2 |-> floor_id, force |-> <<0, 0, 400000>>]>>,
     <<[geom1 |-> 4, geom2 |-> 5, force |-> <<0, 0, 900000>>],
       [geom1 |-> left_toe_id_, geom2 |-> floor_id, force |-> <<0, 0, 1500000>>]>>,
     <<[geom1 |-> left_toe_id_, geom2 |-> 30, force |-> <<0, 0, 100000>>]>>}

\* ComputeTrackingResidual has reached the reads of get_body_mpos: the
\* synthesizer has returned and no assert has stopped the lookups
TrackingReadsDone(tracking) ==
    tracking.translated # << >> /\ tracking.st \in {"ok", "ub"}

\* a residual evaluation of the planner on the current state; last.relocated
\* keeps telling whether the latest control step relocated the goal (the
\* simulation has not moved since)
ResidualEvaluation ==
    /\ status = "ready"
    /\ \E asserts \in (IF TrackedMarkerMissing(model) THEN BOOLEAN ELSE {TRUE}) :
       \E tracking \in {ComputeTrackingResidual(model, mocap_pos, xpos, xmat,
                            time, parameters, current_mode_, model.garbage,
                            asserts)} :
       \E iv \in {TrackingInterpolation(time, reference_time_, current_mode_)} :
       \E reads \in {TrackingReads(TrackingReadOffsets(model, iv, model.garbage))} :
       \E contacts \in ContactChoices :
       \E r \in {Residual(model, tracking,
                     ComputeFootContactForceResidual(model, mocap_pos, contacts,
                                                     model.garbage))} :
            /\ status' = IF r.st = "ok" THEN "ready" ELSE r.st
            /\ last' = [NoLast EXCEPT !.op = "residual",
                                      !.relocated = last.relocated,
                                      !.bad_id = r.bad_id,
                                      !.interp = iv,
                                      !.read_done = TrackingReadsDone(tracking),
                                      !.reads = IF TrackingReadsDone(tracking)
                                                THEN reads ELSE NoLast.reads,
                                      !.residual = r.residual,
                                      !.dim_checks = r.dim_checks,
                                      !.contacts = contacts,
                                      !.force_error = r.force_error,
                                      !.mocap_translated = r.translated]
    /\ UNCHANGED <<model, time, xpos, xmat, mocap_pos, qpos, qvel, mode,
                   current_mode_, reference_time_, parameters, synth_in,
                   playback>>

Next ==
    \/ ResetLocked
    \/ PhysicsStep
    \/ SimReset
    \/ TransitionLocked
    \/ ResidualEvaluation

Spec == Init /\ [][Next]_vars

\* ------------------------------------------------------------------------
\* A motion played back on its own: the frame selection of TransitionLocked
\* (the start and length of the segment, the reference time of the latest
\* motion switch, the interpolation values of the step) over the motions of
\* kMotionLengths and over segments of other starts and lengths
\* ------------------------------------------------------------------------

MaxPlaybackStart == 1

MaxPlaybackLength == 3

MaxPlaybackTick == 14

\* the time between two steps of the playback
PlaybackStep == Scale \div 100

\* the segments: motion_id is the id in kMotionLengths, -1 for a segment the
\* table does not hold
PlaybackSegments ==
    {[motion_id |-> id, start |-> MotionStartIndex(id), length |-> MotionLength(id)] :
        id \in MotionIds}
    \cup {[motion_id |-> -1, start |-> st, length |-> len] :
            st \in 0 .. MaxPlaybackStart, len \in 1 .. MaxPlaybackLength}

\* the frame selection of a step at time t: current_index, last_key_index and
\* the interpolation values
PlaybackFrame(segment, reference_time, t) ==
    [on |-> TRUE, segment |-> segment, reference_time |-> reference_time,
     time |-> t,
     index |-> CurrentIndex(t, reference_time, segment.start),
     last_key_index |-> segment.start + segment.length - 1,
     out |-> ComputeInterpolationValues(
                 CurrentIndex(t, reference_time, segment.start),
                 segment.start + segment.length - 1)]

InitPlayback ==
    /\ model = GoodModel(19, 1)
    /\ status = "new"
    /\ time = 0
    /\ xpos = InitialXpos
    /\ xmat = InitialXmat
    /\ mocap_pos = InitialMocapPos
    /\ qpos = [src |-> "default"]
    /\ qvel = [src |-> "default"]
    /\ mode = 0
    /\ current_mode_ = 0
    /\ reference_time_ = 0
    /\ parameters \in ParameterChoices
    /\ synth_in = NoSynth
    /\ last = NoLast
    /\ \E segment \in PlaybackSegments : playback = PlaybackFrame(segment, 0, 0)

\* a step that switches the motion: reference_time_ becomes the time
PlaybackSwitch ==
    /\ \E segment \in PlaybackSegments :
          playback' = PlaybackFrame(segment, playback.time, playback.time)
    /\ UNCHANGED <<model, status, time, xpos, xmat, mocap_pos, qpos, qvel, mode,
                   current_mode_, reference_time_, parameters, synth_in, last>>

\* a step after the host has set d->time to another nonzero value (a loaded
\* state), the motion unchanged
PlaybackSeek ==
    /\ \E k \in 1 .. MaxPlaybackTick :
          /\ k * PlaybackStep # playback.time
          /\ playback' = PlaybackFrame(playback.segment, playback.reference_time,
                                       k * PlaybackStep)
    /\ UNCHANGED <<model, status, time, xpos, xmat, mocap_pos, qpos, qvel, mode,
                   current_mode_, reference_time_, parameters, synth_in, last>>

\* a step at a later time, the motion unchanged
PlaybackAdvance ==
    /\ playback.time < MaxPlaybackTick * PlaybackStep
    /\ playback' = PlaybackFrame(playback.segment, playback.reference_time,
                                 playback.time + PlaybackStep)
    /\ UNCHANGED <<model, status, time, xpos, xmat, mocap_pos, qpos, qvel, mode,
                   current_mode_, reference_time_, parameters, synth_in, last>>

NextPlayback ==
    \/ PlaybackSwitch
    \/ PlaybackSeek
    \/ PlaybackAdvance

SpecPlayback == InitPlayback /\ [][NextPlayback]_vars


\* ------------------------------------------------------------------------
\* Goal Controller: when the goal is relocated
\* ------------------------------------------------------------------------

\* the goal is within 0.5 of the skateboard in the plane
C1_Near == PlanarDist2(GoalPos(mocap_pos), xpos) < 500 * 500

\* C1: a step of the Transition Controller relocates the goal only when the
\* planar distance between the skateboard and the goal is strictly below 0.5
\* before the step; when the distance is 0.5 or more the goal position is
\* left as it was, and the goal position changes in no step without a
\* relocation.
C1_RelocationOnlyNearGoal ==
    [][last'.op = "transition" =>
          /\ (last'.relocated => C1_Near)
          /\ (~C1_Near => GoalPos(mocap_pos') = GoalPos(mocap_pos))
          /\ (GoalPos(mocap_pos') # GoalPos(mocap_pos) => last'.relocated)]_vars

\* a step has left alone a goal exactly 0.5 away that an earlier step had
\* relocated
C1_GoalAtThresholdLeftAlone ==
    /\ last.op = "transition"
    /\ status = "ready"
    /\ ~last.relocated
    /\ PlanarDist2(GoalPos(mocap_pos), xpos) = 500 * 500
    /\ GoalPos(mocap_pos) # GoalPos(InitialMocapPos)

\* ------------------------------------------------------------------------
\* Goal Controller: where the goal is relocated to
\* ------------------------------------------------------------------------

\* skateboard + 8 * forward + s * 2 * perp, perp the forward direction turned
\* by a quarter turn, s = +1 for the draw `side` and -1 otherwise; the z of
\* the goal kept
C2_Expected(goal_position, forward, side) ==
    <<xpos[1] + 8 * forward[1] - (IF side THEN 2 ELSE -2) * forward[2],
      xpos[2] + 8 * forward[2] + (IF side THEN 2 ELSE -2) * forward[1],
      goal_position[3]>>

\* C2: when a relocation fires, the new goal is the skateboard position plus
\* 8 along the normalized heading plus or minus 2 along its perpendicular,
\* with the goal's z unchanged; its squared planar distance from the
\* skateboard is 68, and with the skateboard at the origin facing +x it is
\* (8, +2, z) or (8, -2, z).
C2_NewGoalPlacement ==
    [][last'.op = "transition" /\ last'.relocated =>
          /\ GoalPos(mocap_pos') =
                C2_Expected(GoalPos(mocap_pos), Normalize2(xmat), last'.left_or_right)
          /\ PlanarDist2(GoalPos(mocap_pos'), xpos) = 68 * Scale * Scale
          /\ (xpos[1] = 0 /\ xpos[2] = 0 /\ xmat = <<Scale, 0>> =>
                /\ GoalPos(mocap_pos')[1] = 8 * Scale
                /\ GoalPos(mocap_pos')[2] \in {2 * Scale, -2 * Scale}
                /\ GoalPos(mocap_pos')[3] = GoalPos(mocap_pos)[3])]_vars

\* a relocation has fired with the skateboard away from the origin on a
\* heading that is not an axis
C2_RelocatedOffAxis ==
    /\ last.op = "transition"
    /\ last.relocated
    /\ last.left_or_right
    /\ xmat = <<300, 400>>
    /\ xpos # InitialXpos

\* ------------------------------------------------------------------------
\* Transition Controller: the mode state
\* ------------------------------------------------------------------------

\* the sum of the first n entries of kMotionLengths
RECURSIVE C6_SumLengths(_)
C6_SumLengths(n) == IF n <= 0 THEN 0 ELSE kMotionLengths[n] + C6_SumLengths(n - 1)

\* C3: a step of the Transition Controller changes current_mode_,
\* reference_time_ and the physics position and velocity only when the
\* requested mode differs from the stored one or the time is exactly 0; then
\* the stored pair becomes {mode, time} and position and velocity are the
\* starting keyframe of that mode; otherwise all four are left as they were.
C3_ModeStateChange ==
    [][last'.op = "transition" =>
          IF mode # current_mode_ \/ time = 0
          THEN /\ current_mode_' = mode
               /\ reference_time_' = time
               /\ qpos' = [src |-> "key", index |-> C6_SumLengths(mode)]
               /\ qvel' = [src |-> "key", index |-> C6_SumLengths(mode)]
          ELSE UNCHANGED <<current_mode_, reference_time_, qpos, qvel>>]_vars

\* a step at a later time has left the mode state and the simulated physics
\* state alone
C3_StepWithoutSwitch ==
    /\ last.op = "transition"
    /\ ~last.did_reset
    /\ time > 0
    /\ reference_time_ = 0
    /\ qpos = [src |-> "sim"]
    /\ qvel = [src |-> "sim"]

\* ------------------------------------------------------------------------
\* Motion Library: the interpolation values
\* ------------------------------------------------------------------------

\* C4: for every index and every max_index >= 0 ComputeInterpolationValues
\* returns weights that sum to 1 and each lie in [0, 1]; an index <= 0 gives
\* weight_0 = 1 and an index >= max_index gives weight_1 = 0.
C4_InterpolationWeights ==
    playback.on =>
        /\ playback.out.weight_0 + playback.out.weight_1 = Scale
        /\ playback.out.weight_0 >= 0 /\ playback.out.weight_0 <= Scale
        /\ playback.out.weight_1 >= 0 /\ playback.out.weight_1 <= Scale
        /\ (playback.index <= 0 => playback.out.weight_0 = Scale)
        /\ (playback.index >= playback.last_key_index * Scale =>
               playback.out.weight_1 = 0)

\* the function has been given an index below 0 and a max_index above 0
C4_NegativeIndex ==
    /\ playback.on
    /\ playback.index < 0
    /\ playback.last_key_index > 0
    /\ playback.out.weight_0 = Scale

\* ------------------------------------------------------------------------
\* Transition Controller: the frame selection
\* ------------------------------------------------------------------------

\* both key indices are the last frame of the segment, weights {1, 0}
C5_AtLastFrame(p) ==
    /\ p.out.index_0 = p.last_key_index
    /\ p.out.index_1 = p.last_key_index
    /\ p.out.weight_0 = Scale
    /\ p.out.weight_1 = 0

\* the key indices lie in [0, last_key_index], the second is the first or the
\* one after it
C5_WithinSegment(p) ==
    /\ p.out.index_0 >= 0
    /\ p.out.index_0 <= p.last_key_index
    /\ p.out.index_1 <= p.last_key_index
    /\ p.out.index_1 \in {p.out.index_0, p.out.index_0 + 1}

\* C5: at every step the key indices stay within [0, last_key_index] and
\* key_index_1 is key_index_0 or key_index_0 + 1; a step whose elapsed time
\* has reached the end of the segment has both indices at the last frame with
\* weights {1, 0}, and so has every later step until the motion is switched;
\* motion 0, of length 1, has both indices at its start with weights {1, 0} at
\* every step.
C5_FrameSelection ==
    [][/\ C5_WithinSegment(playback')
       /\ ((playback'.time - playback'.reference_time) * kFps
              >= (playback'.segment.length - 1) * Scale
            => C5_AtLastFrame(playback'))
       /\ (C5_AtLastFrame(playback)
              /\ playback'.segment = playback.segment
              /\ playback'.reference_time = playback.reference_time
              /\ playback'.time >= playback.time
            => C5_AtLastFrame(playback'))
       /\ (playback'.segment.motion_id = 0 =>
              /\ playback'.out.index_0 = playback'.segment.start
              /\ playback'.out.index_1 = playback'.segment.start
              /\ playback'.out.weight_0 = Scale
              /\ playback'.out.weight_1 = 0)]_vars

\* a segment of several frames has been played past its end
C5_PlayedPastEnd ==
    /\ playback.on
    /\ playback.segment.length > 1
    /\ playback.index > playback.last_key_index * Scale
    /\ C5_AtLastFrame(playback)

\* ------------------------------------------------------------------------
\* Motion Library: the start index
\* ------------------------------------------------------------------------

\* C6: for every valid motion id MotionStartIndex is the sum of the lengths
\* of the motions before it, and MotionStartIndex(0) is 0.
C6_StartIndexIsPrefixSum ==
    playback.on /\ playback.segment.motion_id \in MotionIds =>
        /\ playback.segment.start = C6_SumLengths(playback.segment.motion_id)
        /\ (playback.segment.motion_id = 0 => playback.segment.start = 0)

\* motion 0 is played back from keyframe 0
C6_MotionZeroPlayed ==
    /\ playback.on
    /\ playback.segment.motion_id = 0
    /\ playback.segment.start = 0
    /\ playback.time > 0

\* ------------------------------------------------------------------------
\* Residual Assembler: the layout
\* ------------------------------------------------------------------------

\* the evaluation has written its last block
C7_Complete ==
    /\ last.op = "residual"
    /\ last.residual # << >>
    /\ last.residual[Len(last.residual)] = "com_velocity"

\* the block of scalar i (from 1) in a residual that starts with nj joint
\* velocities and nu controls
C7_BlockOf(nj, nu, i) ==
    IF i <= nj THEN "joint_velocity"
    ELSE IF i <= nj + nu THEN "control"
    ELSE IF i <= nj + nu + 3 THEN "tracking_average"
    ELSE IF i <= nj + nu + 3 + 33 THEN "tracking_position"
    ELSE IF i <= nj + nu + 69 THEN "tracking_velocity"
    ELSE IF i <= nj + nu + 69 + 6 THEN "foot_positions"
    ELSE IF i <= nj + nu + 69 + 6 + 2 THEN "board_heading"
    ELSE IF i <= nj + nu + 69 + 6 + 2 + 3 THEN "board_velocity"
    ELSE IF i <= nj + nu + 69 + 6 + 2 + 3 + 1 THEN "foot_contact_force"
    ELSE "com_velocity"

\* C7: every residual evaluation that runs to its end writes
\* (nv - 19) + nu + 69 + 6 + 2 + 3 + 1 + 2 scalars, in the order joint
\* velocities, control, tracking (average, positions, velocities), foot
\* positions, board heading, board velocity, contact force, COM velocity,
\* whatever the time, the physics state and the mode.
C7_ResidualLayout ==
    C7_Complete =>
        /\ Len(last.residual) = (model.nv - 19) + model.nu + 69 + 6 + 2 + 3 + 1 + 2
        /\ \A i \in 1 .. Len(last.residual) :
              last.residual[i] = C7_BlockOf(model.nv - 19, model.nu, i)

\* an evaluation of a model with more joints has completed after the
\* simulation has moved on
C7_CompletedLater ==
    /\ C7_Complete
    /\ status = "ready"
    /\ model.nv > 19
    /\ time > 0
    /\ qpos = [src |-> "sim"]

\* ------------------------------------------------------------------------
\* Residual Assembler: the contact force
\* ------------------------------------------------------------------------

\* the model has the left toe marker
C8_HasLeftToe == mj_name2id(model, "mocap[ltoe]") >= 0

\* the height of the left toe marker in the pose buffer
C8_LeftToeHeight ==
    mocap_pos[body_mocapid(model, mj_name2id(model, "mocap[ltoe]"))][3]

\* C8: the contact-force residual of a completed evaluation lies in [0, 1],
\* and it is exactly 0 when the left toe marker of the pose buffer is higher
\* than 0.05.
C8_ForceResidualRange ==
    last.op = "residual" /\ status = "ready" /\ C8_HasLeftToe =>
        /\ last.force_error >= 0
        /\ last.force_error <= Scale
        /\ (C8_LeftToeHeight > 50 => last.force_error = 0)

\* an evaluation with the left foot on the floor and the marker lifted
C8_GateClosedOnContact ==
    /\ last.op = "residual"
    /\ status = "ready"
    /\ C8_HasLeftToe
    /\ C8_LeftToeHeight > 50
    /\ Len(last.contacts) > 0
    /\ last.force_error = 0

\* ------------------------------------------------------------------------
\* Pose Synthesizer: what the output depends on
\* ------------------------------------------------------------------------

\* the evaluation, every lookup of which succeeded, ran the synthesizer on the
\* time, parameters and skateboard pose of the step that wrote the pose buffer
C9_SameInputs ==
    /\ last.op = "residual"
    /\ status = "ready"
    /\ ~last.bad_id
    /\ synth_in.called
    /\ synth_in.time = time
    /\ synth_in.parameters = parameters
    /\ synth_in.xpos = xpos
    /\ synth_in.xmat = xmat

\* the markers the evaluation synthesized are those of the pose buffer
C9_SameOutput == \A i \in Markers : last.mocap_translated[i] = mocap_pos[i]

\* C9 as stated: two calls of the synthesizer with the same time, parameters
\* and skateboard position and orientation give the same markers.
C9_DeterminedByStatedInputs == C9_SameInputs => C9_SameOutput

\* C9: two calls of the synthesizer with the same time, parameters, motion
\* mode, skateboard position and orientation and the same goal position in
\* the pose buffer give the same markers.
C9_DeterminedWithGoal ==
    C9_SameInputs /\ synth_in.mode = current_mode_
        /\ synth_in.goal = GoalPos(mocap_pos) => C9_SameOutput

\* an evaluation has repeated the synthesis of a step that moved the markers
\* away from the keyframe
C9_SynthesisRepeated ==
    /\ C9_SameInputs
    /\ synth_in.mode = current_mode_
    /\ synth_in.goal = GoalPos(mocap_pos)
    /\ time > 0
    /\ xpos # InitialXpos
    /\ C9_SameOutput

\* ------------------------------------------------------------------------
\* Lookups by name
\* ------------------------------------------------------------------------

\* C10: a lookup of a named body or of its mocap binding that fails stops the
\* operation before the id is used: no operation uses the id of a failed
\* lookup.
C10_FailedLookupNeverUsed == ~last.bad_id

\* ------------------------------------------------------------------------
\* Residual Assembler: the check of the length
\* ------------------------------------------------------------------------

\* C11: an evaluation of the residual that returns normally has compared the
\* number of scalars it wrote with the declared sensor dimension exactly once
\* and found them equal; no evaluation makes the comparison more than once,
\* and an evaluation whose length differs from the declared dimension ends
\* fatally.
C11_LengthCheckedOnce ==
    last.op = "residual" =>
        /\ last.dim_checks <= 1
        /\ (status = "ready" =>
               /\ last.dim_checks = 1
               /\ Len(last.residual) = model.sensor_dim)
        /\ (C7_Complete /\ Len(last.residual) # model.sensor_dim =>
               status = "fatal")

\* an evaluation of a model that declares another dimension has written all
\* its blocks and ended fatally
C11_MismatchIsFatal ==
    /\ C7_Complete
    /\ last.dim_checks = 1
    /\ Len(last.residual) # model.sensor_dim
    /\ status = "fatal"

\* ------------------------------------------------------------------------
\* Transition Controller: what is written to the pose buffer
\* ------------------------------------------------------------------------

\* the frame interpolated between keyframes index_0 and index_1 with the
\* weights weight_0 and weight_1
C12_Interpolated(iv) ==
    [i \in Markers |->
        <<(key_mpos(iv.index_0)[i][1] * iv.weight_0
             + key_mpos(iv.index_1)[i][1] * iv.weight_1) \div Scale,
          (key_mpos(iv.index_0)[i][2] * iv.weight_0
             + key_mpos(iv.index_1)[i][2] * iv.weight_1) \div Scale,
          (key_mpos(iv.index_0)[i][3] * iv.weight_0
             + key_mpos(iv.index_1)[i][3] * iv.weight_1) \div Scale>>]

\* the markers of the pose buffer mp
C12_MarkersOf(mp) == [i \in Markers |-> mp[i]]

\* C12: after every control step that completes, the markers of the pose
\* buffer are the synthesizer's output for the frame interpolated between the
\* step's two key indices with the step's weights, computed with the goal
\* position the pose buffer held before the step (the Goal Controller runs
\* after the write).
C12_SynthesizedFromInterpolation ==
    [][last'.op = "transition" /\ status' = "ready" =>
          C12_MarkersOf(mocap_pos') =
              SynthesizeFrame(C12_Interpolated(last'.interp), model, mocap_pos,
                              xpos, xmat, time, parameters, model.garbage)]_vars

\* a step has relocated the goal, and its markers are not those the
\* synthesizer gives for the relocated goal
C12_RelocationAfterWrite ==
    /\ last.op = "transition"
    /\ status = "ready"
    /\ last.relocated
    /\ C12_MarkersOf(mocap_pos) #
          SynthesizeFrame(C12_Interpolated(last.interp), model, mocap_pos,
                          xpos, xmat, time, parameters, model.garbage)

\* ------------------------------------------------------------------------
\* Transition Controller: the scratch buffers
\* ------------------------------------------------------------------------

\* C13: every control step releases its stack mark before control leaves the
\* step, on the paths where the synthesizer or the Goal Controller reports an
\* error too: no step that runs to its end or ends in a reported error
\* leaves the mark of mj_markStack open.
C13_MarkAlwaysFreed ==
    last.op = "transition" /\ status \in {"ready", "fatal"} => ~last.stack_open

\* ------------------------------------------------------------------------
\* Residual Assembler: the contact lists
\* ------------------------------------------------------------------------

\* the model has every named body, the goal as a mocap body, every parameter
\* and the sensor dimension the residual writes
C14_ValidInputs ==
    /\ model.bodies = AllBodies
    /\ model.goal_is_mocap
    /\ model.parameter_names = AllParameters
    /\ model.sensor_dim = (model.nv - 19) + model.nu + 69 + 6 + 2 + 3 + 1 + 2

\* C14: with valid inputs the residual evaluation completes without error
\* for every contact list: an empty one, one without a left foot contact, one
\* with only one of the two, one with contacts of other geoms, geoms whose id
\* is no named body's included.
C14_ContactListNeverFails ==
    last.op = "residual" /\ C14_ValidInputs => status = "ready"

\* ------------------------------------------------------------------------
\* Goal Controller: no relocation twice in a row
\* ------------------------------------------------------------------------

\* C15: a control step that follows a relocating control step, the skateboard
\* pose not having changed in between (residual evaluations may lie between
\* the two), relocates nothing and leaves the goal where it is; the planar
\* distance from the skateboard to the relocated goal is sqrt(68), above the
\* threshold 0.5.
C15_NoRelocationTwiceInARow ==
    [][last.relocated /\ last'.op = "transition" =>
          /\ PlanarDist2(GoalPos(mocap_pos), xpos) = 68 * Scale * Scale
          /\ xpos' = xpos /\ xmat' = xmat
          /\ ~last'.relocated
          /\ GoalPos(mocap_pos') = GoalPos(mocap_pos)]_vars

\* a second control step has run on the pose of a relocation and has left
\* the goal sqrt(68) away
C15_SecondStepLeavesGoal ==
    /\ last.op = "transition"
    /\ status = "ready"
    /\ ~last.relocated
    /\ ~last.did_reset
    /\ synth_in.goal = GoalPos(mocap_pos)
    /\ PlanarDist2(GoalPos(mocap_pos), xpos) = 68 * Scale * Scale

\* ------------------------------------------------------------------------
\* Residual Assembler: the reads of the synthesized markers
\* ------------------------------------------------------------------------

\* C16: in an evaluation all of whose lookups succeed, every read of three
\* entries of the synthesized marker buffer, at offset
\* 3 * (nmocap - 1) * key_index + 3 * body_mocapid, lies inside the buffer of
\* 3 * (nmocap - 1) entries, at every reachable time and mode state; both key
\* indices are 0.
C16_TrackingReadsInBounds ==
    last.op = "residual" /\ last.read_done /\ ~last.bad_id =>
        /\ last.reads.lo >= 0
        /\ last.reads.hi + 3 <= 3 * (NMocap - 1)
        /\ last.interp.index_0 = 0
        /\ last.interp.index_1 = 0

\* an evaluation well after the reference time has read up to the last
\* marker of the buffer
C16_ReadLastMarkerLater ==
    /\ last.op = "residual"
    /\ last.read_done
    /\ ~last.bad_id
    /\ time > reference_time_
    /\ last.reads.lo = 0
    /\ last.reads.hi + 3 = 3 * (NMocap - 1)

=============================================================================
